---- MODULE Spec2Model ----
(***************************************************************************)
(* Zytherion core: the account ledger (state.rs), the stake registry       *)
(* (pos.rs), blocks (block.rs), mining and retargeting (pow.rs) and the    *)
(* signatures and digests they use (crypto.rs) as state machines.          *)
(*                                                                         *)
(* u64 values are modelled at a reduced width of U64Bits bits: every       *)
(* addition and subtraction of the source is modelled with its overflow    *)
(* behaviour, which depends on the build (overflow_checks: a panic in a    *)
(* debug build, two's complement wrapping in a release build).             *)
(***************************************************************************)
EXTENDS Integers, Sequences, FiniteSets, TLC

\* ------------------------------------------------------------------ bounds
U64Bits == 4
MaxBalance == 2
MaxAmount == 2
MaxFee == 1
MaxBlockLen == 2
MaxCalls == 3
MaxStake == 2
MaxTime == 1
MaxStakers == 2
MaxVotes == 2
MaxNonce == 2
MaxDifficulty == 2
MaxTxLen == 3

\* crypto.rs line 50: the hex digits of a digest (64), scaled
HashLen == 2
\* block.rs line 127: the transaction count validate() accepts (10000), scaled
TransactionLimit == 2
\* pow.rs line 49: the heights at which the difficulty is adjusted
RetargetInterval == 2016

\* pos.rs lines 147, 148, 150, in tenths
AiWeight == 4
PosWeight == 6
DefaultAiScore == 5

U64Max == 2^U64Bits - 1

Wrap(x) == x % (U64Max + 1)

\* ------------------------------------------------------------------ ledger
VARIABLES
    accounts,         \* State.accounts: HashMap<Address, Account>
    overflow_checks,  \* build setting: TRUE panics on overflow, FALSE wraps
    pc,               \* "idle", or "panicked" once a call has panicked
    op,               \* the last call: "none", "apply_transaction", "apply_block"
    result,           \* what the last call returned
    pre,              \* observer: the ledger when the last call started
    txs,              \* observer: the transactions the last call has read, in order
    calls,            \* observer: number of calls made
    genesis,          \* observer: the ledger before the first call
    accepted,         \* observer: per (sender, nonce), how many transactions were accepted
    resubmitted,      \* observer: the last call tried a (sender, nonce) accepted before
    fees_paid         \* observer: the sum of the fees of the transactions accepted

Addr == {"a1", "a2", "a3"}

Nonces == {0, 1}

OK == "Ok"
ErrNotFound == "Sender account not found"
ErrNonce == "Invalid nonce"
ErrBalance == "Insufficient balance"
Panic == "panic"

Account(a, b, n, s, v) ==
    [address |-> a, balance |-> b, nonce |-> n, staked_amount |-> s, is_validator |-> v]

NewAccount(a) == Account(a, 0, 0, 0, FALSE)

Transaction == [from : Addr, to : Addr, amount : 0..MaxAmount, fee : 0..MaxFee, nonce : Nonces]

\* HashMap::insert
Insert(accts, a, acc) ==
    [x \in (DOMAIN accts) \cup {a} |-> IF x = a THEN acc ELSE accts[x]]

\* accounts.entry(tx.to).or_insert(Account { balance: 0, nonce: 0, ... })
EntryOrInsert(accts, a) ==
    IF a \in DOMAIN accts THEN accts ELSE Insert(accts, a, NewAccount(a))

\* mutant: a nonce at or below the account's is let through
NonceMatches_AtMost(acc, tx) == acc.nonce >= tx.nonce

\* line 51: the nonce check passes when the nonces are equal
NonceMatches(acc, tx) == acc.nonce = tx.nonce

\* line 56: let total_cost = tx.amount + tx.fee (u64)
TotalCost(tx) == Wrap(tx.amount + tx.fee)

\* mutant: a transaction that spends the whole balance is refused
CanAfford_Strict(acc, total_cost) == ~(acc.balance <= total_cost)

\* line 57: the balance check passes unless balance < total_cost
CanAfford(acc, total_cost) == ~(acc.balance < total_cost)

\* mutant: the fee is not charged
DebitSender_NoFee(accts, tx) == [accts EXCEPT ![tx.from].balance = @ - tx.amount]

\* line 63: from_account.balance -= total_cost
DebitSender(accts, tx) == [accts EXCEPT ![tx.from].balance = @ - TotalCost(tx)]

\* mutant: the nonce is left as it was
BumpNonce_Skip(accts, tx) == accts

\* mutant: the nonce advances by two
BumpNonce_Twice(accts, tx) == [accts EXCEPT ![tx.from].nonce = Wrap(@ + 2)]

\* line 64: from_account.nonce += 1
BumpNonce(accts, tx) == [accts EXCEPT ![tx.from].nonce = Wrap(@ + 1)]

\* mutant: the recipient receives the fee as well
CreditRecipient_WithFee(accts, tx) ==
    [accts EXCEPT ![tx.to].balance = Wrap(@ + tx.amount + tx.fee)]

\* line 75: to_account.balance += tx.amount
CreditRecipient(accts, tx) == [accts EXCEPT ![tx.to].balance = Wrap(@ + tx.amount)]

\* mutant: the recipient is entered and credited before the sender is looked up
ApplyTransaction_CreditFirst(accts, tx, checked) ==
    LET credited == CreditRecipient(EntryOrInsert(accts, tx.to), tx) IN
    IF tx.from \notin DOMAIN accts
    THEN [result |-> ErrNotFound, accounts |-> credited]
    ELSE IF ~NonceMatches(accts[tx.from], tx)
    THEN [result |-> ErrNonce, accounts |-> credited]
    ELSE IF ~CanAfford(accts[tx.from], TotalCost(tx))
    THEN [result |-> ErrBalance, accounts |-> credited]
    ELSE [result |-> OK, accounts |-> BumpNonce(DebitSender(credited, tx), tx)]

\* State::apply_transaction as a function of the ledger, the transaction and the
\* build: the value returned and the ledger left behind. An overflowing
\* addition panics where it stands in a checked build (leaving the mutations
\* made before it) and wraps otherwise.
ApplyTransaction(accts, tx, checked) ==
    IF tx.from \notin DOMAIN accts
    THEN [result |-> ErrNotFound, accounts |-> accts]
    ELSE IF ~NonceMatches(accts[tx.from], tx)
    THEN [result |-> ErrNonce, accounts |-> accts]
    ELSE IF checked /\ tx.amount + tx.fee > U64Max
    THEN [result |-> Panic, accounts |-> accts]
    ELSE IF ~CanAfford(accts[tx.from], TotalCost(tx))
    THEN [result |-> ErrBalance, accounts |-> accts]
    ELSE LET debited == DebitSender(accts, tx)
             bumped  == BumpNonce(debited, tx)
             entered == EntryOrInsert(bumped, tx.to)
         IN IF checked /\ accts[tx.from].nonce + 1 > U64Max
            THEN [result |-> Panic, accounts |-> debited]
            ELSE IF checked /\ entered[tx.to].balance + tx.amount > U64Max
            THEN [result |-> Panic, accounts |-> entered]
            ELSE [result |-> OK, accounts |-> CreditRecipient(entered, tx)]

\* mutant: a failing transaction is skipped and the loop goes on
RECURSIVE ApplyBlock_Continue(_, _, _)
ApplyBlock_Continue(accts, block, checked) ==
    IF block = <<>>
    THEN [result |-> OK, accounts |-> accts, applied |-> 0]
    ELSE LET r == ApplyTransaction(accts, Head(block), checked)
             rest == ApplyBlock_Continue(r.accounts, Tail(block), checked)
         IN IF r.result = OK THEN [rest EXCEPT !.applied = @ + 1] ELSE rest

\* State::apply_block: for tx in &block.transactions { self.apply_transaction(tx)?; }
\* Ok(()). The value returned, the ledger left behind and the number of
\* transactions for which apply_transaction returned Ok.
RECURSIVE ApplyBlock(_, _, _)
ApplyBlock(accts, block, checked) ==
    IF block = <<>>
    THEN [result |-> OK, accounts |-> accts, applied |-> 0]
    ELSE LET r == ApplyTransaction(accts, Head(block), checked) IN
         IF r.result # OK
         THEN [result |-> r.result, accounts |-> r.accounts, applied |-> 0]
         ELSE LET rest == ApplyBlock(r.accounts, Tail(block), checked)
              IN [rest EXCEPT !.applied = @ + 1]

\* the sum of the balances of the accounts of S
RECURSIVE SumBalances(_, _)
SumBalances(accts, S) ==
    IF S = {} THEN 0
    ELSE LET a == CHOOSE x \in S : TRUE IN accts[a].balance + SumBalances(accts, S \ {a})

\* State::get_total_supply: self.accounts.values().map(|acc| acc.balance).sum(),
\* a u64 sum that panics on overflow in a checked build and wraps otherwise
GetTotalSupply(accts, checked) ==
    IF checked /\ SumBalances(accts, DOMAIN accts) > U64Max
    THEN [result |-> Panic]
    ELSE [result |-> OK, value |-> Wrap(SumBalances(accts, DOMAIN accts))]

\* ------------------------------------------------------- stake registry
VARIABLES
    stakers,          \* ProofOfStake.stakers: Vec<Staker>
    total_stake,      \* ProofOfStake.total_stake
    minimum_stake,    \* ProofOfStake.minimum_stake
    unbonding_period, \* ProofOfStake.unbonding_period
    pos_pc,           \* "idle" or "panicked"
    pos_call,         \* the last registry call and what it returned
    pos_pre,          \* observer: stakers and total_stake when the last call started
    sel,              \* select_validators: where the call stands, its local validators,
                      \* the parity of the loop turns taken
    pos_query         \* the last call that only reads the registry, and what it returned

PosAddr == {"v1", "v2"}
MinimumStakes == {0, 1}
UnbondingPeriods == {1, 2}

\* fn calculate_voting_power: (stake_amount as f64).sqrt(), kept as a fixed-point
\* number of tenths: the largest r with (r/10)^2 <= stake_amount
SqrtTenths ==
    [n \in 0..U64Max |->
        CHOOSE r \in 0..(10 * n) : r * r <= 100 * n /\ (r + 1) * (r + 1) > 100 * n]

CalculateVotingPower(stake_amount) == SqrtTenths[stake_amount]

Staker(a, amount, since) ==
    [address |-> a, stake_amount |-> amount, bonded_since |-> since,
     voting_power |-> CalculateVotingPower(amount)]

\* fn update_voting_powers: every entry's voting power is recomputed from its stake
UpdateVotingPowers(list) ==
    [i \in 1..Len(list) |->
        [list[i] EXCEPT !.voting_power = CalculateVotingPower(list[i].stake_amount)]]

\* mutant: the last entry is removed, whatever the index
RemoveAt_Last(list, index) == SubSeq(list, 1, Len(list) - 1)

\* Vec::remove(index)
RemoveAt(list, index) ==
    [i \in 1..(Len(list) - 1) |-> IF i < index THEN list[i] ELSE list[i + 1]]

\* stakers.iter().position(|s| &s.address == address): the first match, 0 for None
Position(list, a) ==
    IF \E i \in 1..Len(list) : list[i].address = a
    THEN CHOOSE i \in 1..Len(list) :
            /\ list[i].address = a
            /\ \A j \in 1..(i - 1) : list[j].address # a
    ELSE 0

\* mutant: a stake equal to the minimum is refused
BelowMinimum_AtMost(stake_amount, minimum) == stake_amount <= minimum

\* pos.rs line 33: stake_amount < self.minimum_stake
BelowMinimum(stake_amount, minimum) == stake_amount < minimum

\* ProofOfStake::add_staker as a function of the registry: the value returned
\* and the registry left behind. total_stake += stake_amount panics after the
\* push in a checked build and wraps otherwise.
AddStaker(list, total, minimum, a, stake_amount, timestamp, checked) ==
    IF BelowMinimum(stake_amount, minimum)
    THEN [ret |-> "false", stakers |-> list, total_stake |-> total]
    ELSE LET pushed == Append(list, Staker(a, stake_amount, timestamp)) IN
         IF checked /\ total + stake_amount > U64Max
         THEN [ret |-> Panic, stakers |-> pushed, total_stake |-> total]
         ELSE [ret |-> "true", stakers |-> UpdateVotingPowers(pushed),
               total_stake |-> Wrap(total + stake_amount)]

\* pos.rs line 56: current_time - staker.bonded_since < self.unbonding_period,
\* the difference taken in u64 (wrapping build)
StillBonded(current_time, bonded_since, period) ==
    Wrap(current_time - bonded_since + U64Max + 1) < period

\* ProofOfStake::remove_staker as a function of the registry. Both subtractions
\* panic on underflow in a checked build and wrap otherwise.
RemoveStaker(list, total, period, a, current_time, checked) ==
    LET index == Position(list, a) IN
    IF index = 0
    THEN [ret |-> "false", stakers |-> list, total_stake |-> total]
    ELSE IF checked /\ current_time < list[index].bonded_since
    THEN [ret |-> Panic, stakers |-> list, total_stake |-> total]
    ELSE IF StillBonded(current_time, list[index].bonded_since, period)
    THEN [ret |-> "false", stakers |-> list, total_stake |-> total]
    ELSE IF checked /\ total < list[index].stake_amount
    THEN [ret |-> Panic, stakers |-> list, total_stake |-> total]
    ELSE [ret |-> "true",
          stakers |-> UpdateVotingPowers(RemoveAt(list, index)),
          total_stake |-> Wrap(total - list[index].stake_amount + U64Max + 1)]

\* pos.rs line 84: self.stakers.iter().map(|s| s.voting_power).sum()
RECURSIVE TotalPower(_)
TotalPower(list) ==
    IF list = <<>> THEN 0 ELSE Head(list).voting_power + TotalPower(Tail(list))

\* pos.rs line 88: rand::random::<f64>() * total_power, a value of [0, total_power)
Draws(total_power) == IF total_power = 0 THEN {0} ELSE 0..(total_power - 1)

\* pos.rs lines 90-98: walk the list subtracting each voting power from the draw;
\* the index of the entry at which it is no longer positive, 0 if the list ends first
RECURSIVE Walk(_, _, _)
Walk(list, i, selection) ==
    IF i > Len(list) THEN 0
    ELSE LET rest == selection - list[i].voting_power IN
         IF rest <= 0 THEN i ELSE Walk(list, i + 1, rest)

Contains(seq, x) == \E i \in 1..Len(seq) : seq[i] = x

\* mutant: the address is pushed whether selected before or not
PushIfAbsent_Always(validators, a) == Append(validators, a)

\* pos.rs lines 93-95: if !validators.contains(&staker.address) { validators.push(..) }
PushIfAbsent(validators, a) ==
    IF Contains(validators, a) THEN validators ELSE Append(validators, a)

\* pos.rs line 87: validators.len() < count && validators.len() < self.stakers.len()
SelectMore(validators, count, list) ==
    Len(validators) < count /\ Len(validators) < Len(list)

\* ------------------------------------------------------- votes and finality
VoteType == {"Approve", "Reject", "Abstain"}
KeyPairs == {"k1", "k2"}
BlockHashes == {"h1", "h2"}

NoCall == [name |-> "none"]

None == [some |-> FALSE]
Some(x) == [some |-> TRUE, value |-> x]

\* KeyPair::sign: the signature of a message under a key
Sign(key_pair, message) == [key |-> key_pair, message |-> message]

\* KeyPair::public_key
PublicKey(key_pair) == <<"public", key_pair>>

\* verify_signature: Ed25519 accepts a signature under a public key if and only
\* if it was made over that message with the key pair of that public key
VerifySignature(public_key, message, signature) ==
    \E key_pair \in KeyPairs :
        PublicKey(key_pair) = public_key /\ signature = Sign(key_pair, message)

\* Address::from_public_key: an address out of the digest of the public key,
\* one per key
AddressFromPublicKey(public_key) == IF public_key = PublicKey("k1") THEN "v1" ELSE "v2"

\* format!("{}{:?}", block.hash, vote)
VoteData(block_hash, vote) == <<block_hash, vote>>

ValidatorVote(validator, signature, vote) ==
    [validator |-> validator, signature |-> signature, vote |-> vote]

\* mutant: only the first entry of the registry is looked at
IsStaker_First(list, validator) == list # <<>> /\ list[1].address = validator

\* pos.rs line 112: self.stakers.iter().any(|s| &s.address == validator)
IsStaker(list, validator) == \E i \in 1..Len(list) : list[i].address = validator

\* ProofOfStake::vote_on_block
VoteOnBlock(list, block_hash, validator, key_pair, vote) ==
    IF ~IsStaker(list, validator)
    THEN None
    ELSE Some(ValidatorVote(validator, Sign(key_pair, VoteData(block_hash, vote)), vote))

\* mutant: every vote that is not a Reject counts as approval
IsApprove_NotReject(vote) == vote.vote # "Reject"

\* pos.rs line 134: matches!(vote.vote, VoteType::Approve)
IsApprove(vote) == vote.vote = "Approve"

\* pos.rs lines 127-138: total_voting_power and approval_power after the loop over votes
RECURSIVE Tally(_, _, _, _)
Tally(list, votes, total_voting_power, approval_power) ==
    IF votes = <<>>
    THEN [total_voting_power |-> total_voting_power, approval_power |-> approval_power]
    ELSE LET vote == Head(votes)
             index == Position(list, vote.validator) IN
         IF index = 0
         THEN Tally(list, Tail(votes), total_voting_power, approval_power)
         ELSE Tally(list, Tail(votes),
                    total_voting_power + list[index].voting_power,
                    IF IsApprove(vote) THEN approval_power + list[index].voting_power
                    ELSE approval_power)

\* pos.rs lines 140-144: approval_power / total_voting_power as a fraction, 0 if no power
PosScore(tally) ==
    IF tally.total_voting_power > 0
    THEN [num |-> tally.approval_power, den |-> tally.total_voting_power]
    ELSE [num |-> 0, den |-> 1]

UnwrapOr(option, default) == IF option.some THEN option.value ELSE default

\* ProofOfStake::calculate_finality_score: ai_contribution + pos_contribution as a
\* fraction num / den; ai_score is given in tenths
CalculateFinalityScore(list, votes, ai_score) ==
    LET pos_score == PosScore(Tally(list, votes, 0, 0))
        ai_contribution == UnwrapOr(ai_score, DefaultAiScore) * AiWeight
    IN [num |-> ai_contribution * pos_score.den + pos_score.num * PosWeight * 10,
        den |-> 100 * pos_score.den]

\* ------------------------------------------------------- blocks and mining
VARIABLES
    sha,              \* the leading hex digits of the digest of a header, by its nonce
    pow,              \* ProofOfWork: difficulty, max_nonce
    chain_block,      \* the Block the caller holds
    fresh,            \* observer: that block as Block::new returned it
    tampered,         \* observer: the header field changed since, "none" if none
    mine,             \* mine_block: where the call stands, its block, the nonces tried
    difficulty_call   \* the last call of calculate_difficulty and what it returned

\* The hex digits that matter to a target: "0" and "f". Each of the other
\* fourteen passes and fails the same prefix tests as "0" does after a "0", and
\* fails where the target starts.
HexDigits == {"0", "f"}
Leads == [1..HashLen -> HexDigits]

\* mutant: the height is left out of the bytes that are hashed
SerializeHeader_NoHeight(header) ==
    <<header.version, header.previous_hash, header.merkle_root, header.timestamp,
      header.difficulty, header.nonce, header.validator_votes, 0>>

\* bincode::serialize(&self.header): the fields in declaration order
SerializeHeader(header) ==
    <<header.version, header.previous_hash, header.merkle_root, header.timestamp,
      header.difficulty, header.nonce, header.validator_votes, header.height>>

\* bincode::serialize(tx)
SerializeTransaction(tx) == <<tx.from, tx.to, tx.amount, tx.fee, tx.nonce>>

\* hash_data: SHA-256 in lowercase hex. The digest is collision-free (it is
\* told apart by the data hashed) and its leading digits are any function of
\* the data: here any function of the nonce for the bytes of a header.
HashData(data) ==
    [hex |-> IF Len(data) = 8 /\ data[6] \in DOMAIN sha
             THEN sha[data[6]] ELSE [i \in 1..HashLen |-> "0"],
     of |-> data]

EmptyString == [hex |-> <<>>, of |-> <<"">>]

\* Block::calculate_hash
CalculateHash(b) == HashData(SerializeHeader(b.header))

\* mutant: the last hash of an odd-sized level goes up as it is
RECURSIVE MerkleLevel_OddUnpaired(_)
MerkleLevel_OddUnpaired(hashes) ==
    IF hashes = <<>> THEN <<>>
    ELSE IF Len(hashes) = 1 THEN <<hashes[1]>>
    ELSE <<HashData(<<hashes[1], hashes[2]>>)>>
            \o MerkleLevel_OddUnpaired(SubSeq(hashes, 3, Len(hashes)))

\* one level of the merkle reduction: block.rs lines 107-114
RECURSIVE MerkleLevel(_)
MerkleLevel(hashes) ==
    IF hashes = <<>> THEN <<>>
    ELSE IF Len(hashes) = 1 THEN <<HashData(<<hashes[1], hashes[1]>>)>>
    ELSE <<HashData(<<hashes[1], hashes[2]>>)>> \o MerkleLevel(SubSeq(hashes, 3, Len(hashes)))

RECURSIVE MerkleReduce(_)
MerkleReduce(hashes) ==
    IF Len(hashes) > 1 THEN MerkleReduce(MerkleLevel(hashes)) ELSE hashes[1]

\* Block::calculate_merkle_root
CalculateMerkleRoot(transactions) ==
    IF transactions = <<>> THEN HashData(<<>>)
    ELSE MerkleReduce([i \in 1..Len(transactions) |->
                            HashData(SerializeTransaction(transactions[i]))])

\* Block::new, with the clock reading it takes
BlockNew(previous_hash, transactions, difficulty, height, now) ==
    LET header == [version |-> 1, previous_hash |-> previous_hash,
                   merkle_root |-> CalculateMerkleRoot(transactions),
                   timestamp |-> now, difficulty |-> difficulty, nonce |-> 0,
                   validator_votes |-> <<>>, height |-> height]
        b == [header |-> header, transactions |-> transactions, hash |-> EmptyString,
              ai_validator_score |-> None]
    IN [b EXCEPT !.hash = CalculateHash(b)]

\* Block::validate
Validate(b) ==
    IF b.hash # CalculateHash(b) THEN FALSE
    ELSE IF Len(b.transactions) > TransactionLimit THEN FALSE
    ELSE TRUE

\* ProofOfWork::new
PowNew(difficulty) == [difficulty |-> difficulty, max_nonce |-> MaxNonce + 1]

\* fn get_target: "0".repeat(difficulty) followed by "f"
GetTarget(difficulty) == [i \in 1..(difficulty + 1) |-> IF i <= difficulty THEN "0" ELSE "f"]

\* str::starts_with
StartsWith(str, prefix) ==
    Len(prefix) <= Len(str) /\ SubSeq(str, 1, Len(prefix)) = prefix

\* fn is_valid_hash
IsValidHash(hash, target) == StartsWith(hash.hex, target)

\* i64 at the width of the model's u64
I64Min == -(2^(U64Bits - 1))
I64Max == 2^(U64Bits - 1) - 1

\* x as i64: the same bits read as two's complement
AsI64(x) == IF x > I64Max THEN x - (U64Max + 1) ELSE x

\* an i64 result that wrapped
WrapI64(v) == ((v - I64Min) % (U64Max + 1)) + I64Min

\* v as u64
AsU64(v) == v % (U64Max + 1)

\* u64::saturating_sub(1), u64::saturating_add(1)
SaturatingSub1(x) == IF x = 0 THEN 0 ELSE x - 1
SaturatingAdd1(x) == IF x = U64Max THEN U64Max ELSE x + 1

\* mutant: the difficulty is adjusted at every height
AtRetarget_Always(current_height) == TRUE

\* pow.rs line 49: current_height % 2016 == 0
AtRetarget(current_height) == current_height % RetargetInterval = 0

\* ProofOfWork::calculate_difficulty as a function of its arguments and the
\* build. The i64 subtraction, the abs() of i64::MIN and the u64 doubling of
\* the target panic on overflow in a checked build and wrap otherwise.
CalculateDifficulty(current_height, last_block_time, target_block_time, current_difficulty, checked) ==
    IF ~AtRetarget(current_height) THEN [result |-> OK, value |-> current_difficulty]
    ELSE LET difference == AsI64(last_block_time) - AsI64(target_block_time)
             wrapped == WrapI64(difference)
             time_diff == AsU64(IF wrapped < 0 THEN WrapI64(-wrapped) ELSE wrapped)
         IN IF checked /\ difference # wrapped THEN [result |-> Panic]
            ELSE IF checked /\ wrapped = I64Min THEN [result |-> Panic]
            ELSE IF checked /\ target_block_time * 2 > U64Max THEN [result |-> Panic]
            ELSE IF time_diff > Wrap(target_block_time * 2)
                 THEN [result |-> OK, value |-> SaturatingSub1(current_difficulty)]
            ELSE IF time_diff < target_block_time \div 2
                 THEN [result |-> OK, value |-> SaturatingAdd1(current_difficulty)]
            ELSE [result |-> OK, value |-> current_difficulty]

\* mutant: every other nonce is tried
NextNonce_Skip(nonce) == nonce + 2

\* pow.rs line 19: the range 0..self.max_nonce moves on by one
NextNonce(nonce) == nonce + 1

\* mutant: the block keeps the hash it came with
WithHash_Stale(b, hash) == b

\* pow.rs line 24: block.hash = hash
WithHash(b, hash) == [b EXCEPT !.hash = hash]

chainVars == <<sha, pow, chain_block, fresh, tampered, mine, difficulty_call>>

NoBlock == [header |-> <<>>, transactions |-> <<>>, hash |-> EmptyString,
            ai_validator_score |-> None]

MineIdle == [pc |-> "idle", block |-> NoBlock, nonce |-> 0, tried |-> <<>>, ret |-> None]

ChainUnused ==
    /\ sha = <<>>
    /\ pow = PowNew(0)
    /\ chain_block = NoBlock
    /\ fresh = NoBlock
    /\ tampered = "none"
    /\ mine = MineIdle
    /\ difficulty_call = NoCall

ledgerVars == <<accounts, overflow_checks, pc, op, result, pre, txs, calls,
                genesis, accepted, resubmitted, fees_paid>>
posVars == <<stakers, total_stake, minimum_stake, unbonding_period, pos_pc, pos_call, pos_pre,
             sel, pos_query>>
vars == <<ledgerVars, posVars, chainVars>>

\* no select_validators call under way
SelIdle == [pc |-> "idle", count |-> 0, validators |-> <<>>, skipped |-> FALSE,
            turn |-> 0, pre |-> <<>>]

PosUnused ==
    /\ stakers = <<>>
    /\ total_stake = 0
    /\ minimum_stake = 0
    /\ unbonding_period = 0
    /\ pos_pc = "idle"
    /\ pos_call = NoCall
    /\ pos_pre = [stakers |-> <<>>, total_stake |-> 0]
    /\ sel = SelIdle
    /\ pos_query = NoCall

\* ------------------------------------------------------- ledger actions
AcceptedKeys == Addr \X Nonces

\* observer: the transactions for which apply_transaction returned Ok, counted
\* under their (sender, nonce): the first n of seq
\* and whether one of the transactions tried (the first n and the one that
\* failed, if any) carried a (sender, nonce) accepted before it
Key(tx) == <<tx.from, tx.nonce>>

\* the fees of the first n transactions of seq
RECURSIVE SumFees(_, _)
SumFees(seq, n) == IF n = 0 THEN 0 ELSE seq[n].fee + SumFees(seq, n - 1)

CountAll(seq, n) ==
    /\ accepted' = [k \in AcceptedKeys |->
                        accepted[k] + Cardinality({i \in 1..n : Key(seq[i]) = k})]
    /\ resubmitted' = \E i \in 1..Len(seq) :
                        /\ i <= n + 1
                        /\ \/ accepted[Key(seq[i])] >= 1
                           \/ \E j \in 1..(i - 1) : Key(seq[j]) = Key(seq[i])
    /\ fees_paid' = fees_paid + SumFees(seq, n)

Count(tx, res) == CountAll(<<tx>>, IF res = OK THEN 1 ELSE 0)

\* a call of State::apply_transaction
ApplyTransactionCall(tx) ==
    /\ pc = "idle"
    /\ \E r \in {ApplyTransaction(accounts, tx, overflow_checks)} :
        /\ accounts' = r.accounts
        /\ result' = r.result
        /\ pc' = IF r.result = Panic THEN "panicked" ELSE "idle"
        /\ Count(tx, r.result)
    /\ op' = "apply_transaction"
    /\ calls' = calls + 1
    /\ UNCHANGED <<overflow_checks, genesis>>

\* a call of State::apply_block: the whole loop, under the exclusive borrow of
\* the ledger that &mut self is
ApplyBlockCall(block) ==
    /\ pc = "idle"
    /\ \E r \in {ApplyBlock(accounts, block, overflow_checks)} :
        /\ accounts' = r.accounts
        /\ result' = r.result
        /\ pc' = IF r.result = Panic THEN "panicked" ELSE "idle"
        /\ CountAll(block, r.applied)
    /\ op' = "apply_block"
    /\ calls' = calls + 1
    /\ UNCHANGED <<overflow_checks, genesis>>

\* observers of one call: the ledger it started from and the transactions it was given
Record(seq) == pre' = accounts /\ txs' = seq
NoRecord == UNCHANGED <<pre, txs>>

\* ------------------------------------------------------- ledgers to start from
\* The accounts a ledger starts with are put there by update_account, with any
\* balance; staked_amount and is_validator are never read or written by the
\* state engine and are fixed per address.
GenesisStake(a) == IF a = "a2" THEN 5 ELSE 0
GenesisAccount(a, b, n) == Account(a, b, n, GenesisStake(a), a = "a2")

GenesisLedgers ==
    UNION { { [a \in S |-> GenesisAccount(a, f[a].b, f[a].n)] :
                f \in [S -> [b : 0..MaxBalance, n : Nonces]] } : S \in SUBSET Addr }

LedgerStart(ledgers) ==
    /\ accounts \in ledgers
    /\ overflow_checks \in BOOLEAN
    /\ pc = "idle"
    /\ op = "none"
    /\ result = "none"
    /\ pre = accounts
    /\ txs = <<>>
    /\ calls = 0
    /\ genesis = accounts
    /\ accepted = [k \in AcceptedKeys |-> 0]
    /\ resubmitted = FALSE
    /\ fees_paid = 0

InitLedger(ledgers) ==
    /\ LedgerStart(ledgers)
    /\ PosUnused
    /\ ChainUnused

\* one call of apply_transaction on any ledger
InitTx == InitLedger(GenesisLedgers)

NextTx ==
    /\ calls = 0
    /\ \E tx \in Transaction :
        /\ ApplyTransactionCall(tx)
        /\ Record(<<tx>>)
        /\ UNCHANGED <<posVars, chainVars>>

SpecTx == InitTx /\ [][NextTx]_vars

\* one call of apply_block. The block's transactions move one unit, with or
\* without a fee, between any two addresses; the ledger holds a1 with the largest
\* balance and possibly a2.
BlockTransaction == [from : Addr, to : Addr, amount : {1}, fee : {0, 1}, nonce : Nonces]

RECURSIVE SeqsUpTo(_, _)
SeqsUpTo(S, n) ==
    IF n = 0 THEN {<<>>}
    ELSE LET shorter == SeqsUpTo(S, n - 1)
         IN shorter \cup {Append(q, x) : q \in {r \in shorter : Len(r) = n - 1}, x \in S}

Blocks == SeqsUpTo(BlockTransaction, MaxBlockLen)

BlockLedgers ==
    {l \in GenesisLedgers :
        /\ "a1" \in DOMAIN l /\ "a3" \notin DOMAIN l
        /\ l["a1"].balance = MaxBalance
        /\ \A a \in DOMAIN l : l[a].nonce = 0}

InitBlock == InitLedger(BlockLedgers)

NextBlock ==
    /\ calls = 0
    /\ \E block \in Blocks :
        /\ ApplyBlockCall(block)
        /\ Record(block)
        /\ UNCHANGED <<posVars, chainVars>>

SpecBlock == InitBlock /\ [][NextBlock]_vars

\* any sequence of at most MaxCalls calls of apply_transaction and apply_block.
\* Each transaction moves one unit from an address to the next one.
NextAddr(a) == IF a = "a1" THEN "a2" ELSE IF a = "a2" THEN "a3" ELSE "a1"

SeqTransaction ==
    {tx \in [from : Addr, to : Addr, amount : {1}, fee : {0}, nonce : Nonces] :
        tx.to = NextAddr(tx.from)}

SeqBlocks == SeqsUpTo(SeqTransaction, MaxBlockLen)

SeqLedgers ==
    {l \in GenesisLedgers :
        /\ "a1" \in DOMAIN l /\ "a3" \notin DOMAIN l
        /\ l["a1"].balance = MaxBalance /\ l["a1"].nonce = 0}

InitSeq == InitLedger(SeqLedgers)

NextSeq ==
    /\ calls < MaxCalls
    /\ \/ \E tx \in SeqTransaction :
            /\ ApplyTransactionCall(tx)
            /\ NoRecord
            /\ UNCHANGED <<posVars, chainVars>>
       \/ \E block \in SeqBlocks :
            /\ ApplyBlockCall(block)
            /\ NoRecord
            /\ UNCHANGED <<posVars, chainVars>>

SpecSeq == InitSeq /\ [][NextSeq]_vars

\* any sequence of at most MaxCalls calls of apply_transaction and apply_block
\* with transactions that move one unit: from a1 to a2 or to itself for a fee
\* of 1, from a2 to a1 without a fee
SupplyTransaction ==
    {tx \in [from : {"a1", "a2"}, to : {"a1", "a2"}, amount : {1}, fee : {0, 1},
             nonce : Nonces] :
        /\ tx.from = "a1" => tx.fee = 1
        /\ tx.from = "a2" => (tx.fee = 0 /\ tx.to = "a1")}

NextSupply ==
    /\ calls < MaxCalls
    /\ \/ \E tx \in SupplyTransaction :
            /\ ApplyTransactionCall(tx)
            /\ NoRecord
            /\ UNCHANGED <<posVars, chainVars>>
       \/ \E block \in SeqsUpTo(SupplyTransaction, MaxBlockLen) :
            /\ ApplyBlockCall(block)
            /\ NoRecord
            /\ UNCHANGED <<posVars, chainVars>>

SpecSupply == InitSeq /\ [][NextSupply]_vars

\* one call of apply_transaction with amounts and fees from both ends of u64,
\* on a ledger that holds a1, and possibly a2, with balances from both ends
InitWide ==
    InitLedger({l \in UNION { { [a \in S |-> GenesisAccount(a, f[a], 0)] :
                                    f \in [S -> {0, 1, U64Max}] } : S \in SUBSET Addr } :
                    "a1" \in DOMAIN l /\ "a3" \notin DOMAIN l})

NextWide ==
    /\ calls = 0
    /\ \E tx \in [from : Addr, to : Addr, amount : {0, 1, U64Max - 1, U64Max},
                   fee : {0, 1, U64Max}, nonce : {0}] :
        /\ ApplyTransactionCall(tx)
        /\ Record(<<tx>>)
        /\ UNCHANGED <<posVars, chainVars>>

SpecWide == InitWide /\ [][NextWide]_vars

\* ------------------------------------------------------- stake registry actions
LedgerUnused ==
    /\ accounts = <<>>
    /\ pc = "idle"
    /\ op = "none"
    /\ result = "none"
    /\ pre = <<>>
    /\ txs = <<>>
    /\ calls = 0
    /\ genesis = <<>>
    /\ accepted = [k \in AcceptedKeys |-> 0]
    /\ resubmitted = FALSE
    /\ fees_paid = 0

\* ProofOfStake::new(minimum_stake, unbonding_period)
InitPos ==
    /\ stakers = <<>>
    /\ total_stake = 0
    /\ minimum_stake \in MinimumStakes
    /\ unbonding_period \in UnbondingPeriods
    /\ pos_pc = "idle"
    /\ pos_call = NoCall
    /\ pos_pre = [stakers |-> <<>>, total_stake |-> 0]
    /\ sel = SelIdle
    /\ pos_query = NoCall
    /\ overflow_checks \in BOOLEAN
    /\ LedgerUnused
    /\ ChainUnused

\* a call of add_staker
AddStakerCall(a, stake_amount, timestamp) ==
    /\ pos_pc = "idle"
    /\ Len(stakers) < MaxStakers
    /\ \E r \in {AddStaker(stakers, total_stake, minimum_stake, a, stake_amount, timestamp,
                           overflow_checks)} :
        /\ stakers' = r.stakers
        /\ total_stake' = r.total_stake
        /\ pos_pc' = IF r.ret = Panic THEN "panicked" ELSE "idle"
        /\ pos_call' = [name |-> "add_staker", address |-> a, amount |-> stake_amount,
                        time |-> timestamp, ret |-> r.ret]
    /\ pos_pre' = [stakers |-> stakers, total_stake |-> total_stake]
    /\ UNCHANGED <<minimum_stake, unbonding_period, overflow_checks>>

\* a call of remove_staker
RemoveStakerCall(a, current_time) ==
    /\ pos_pc = "idle"
    /\ \E r \in {RemoveStaker(stakers, total_stake, unbonding_period, a, current_time,
                              overflow_checks)} :
        /\ stakers' = r.stakers
        /\ total_stake' = r.total_stake
        /\ pos_pc' = IF r.ret = Panic THEN "panicked" ELSE "idle"
        /\ pos_call' = [name |-> "remove_staker", address |-> a, amount |-> 0,
                        time |-> current_time, ret |-> r.ret]
    /\ pos_pre' = [stakers |-> stakers, total_stake |-> total_stake]
    /\ UNCHANGED <<minimum_stake, unbonding_period, overflow_checks>>

ledgerRest == <<accounts, pc, op, result, pre, txs, calls, genesis, accepted, resubmitted,
                fees_paid, chainVars>>
posRest == <<sel, pos_query>>

NextPos ==
    \/ \E a \in PosAddr, stake_amount \in 0..MaxStake, timestamp \in 0..MaxTime :
        AddStakerCall(a, stake_amount, timestamp) /\ UNCHANGED <<ledgerRest, posRest>>
    \/ \E a \in PosAddr, current_time \in 0..MaxTime :
        RemoveStakerCall(a, current_time) /\ UNCHANGED <<ledgerRest, posRest>>

SpecPos == InitPos /\ [][NextPos]_vars

\* ------------------------------------------------------- select_validators
\* pos.rs lines 84-85: the call starts with an empty validators vector
BeginSelectValidators(count) ==
    /\ pos_pc = "idle"
    /\ sel.pc = "idle"
    /\ sel' = [pc |-> "loop", count |-> count, validators |-> <<>>, skipped |-> FALSE,
               turn |-> 0, pre |-> stakers]
    /\ UNCHANGED <<stakers, total_stake, minimum_stake, unbonding_period, pos_pc, pos_call,
                   pos_pre, pos_query, overflow_checks>>

\* pos.rs lines 87-99: one turn of the while loop, with the given draw
SelectIteration(selection) ==
    /\ sel.pc = "loop"
    /\ SelectMore(sel.validators, sel.count, stakers)
    /\ selection \in Draws(TotalPower(stakers))
    /\ \E index \in {Walk(stakers, 1, selection)} :
        sel' = IF index = 0 THEN [sel EXCEPT !.turn = 1 - @]
               ELSE [sel EXCEPT
                        !.validators = PushIfAbsent(@, stakers[index].address),
                        !.skipped = @ \/ Contains(sel.validators, stakers[index].address),
                        !.turn = 1 - @]
    /\ UNCHANGED <<stakers, total_stake, minimum_stake, unbonding_period, pos_pc, pos_call,
                   pos_pre, pos_query, overflow_checks>>

\* the turns of the loop whose draw stops the walk at entry i
SelectStaker(i) ==
    /\ sel.pc = "loop"
    /\ \E selection \in Draws(TotalPower(stakers)) :
        /\ Walk(stakers, 1, selection) = i
        /\ SelectIteration(selection)

\* pos.rs lines 87, 101: the loop condition fails and validators is returned
SelectReturn ==
    /\ sel.pc = "loop"
    /\ ~SelectMore(sel.validators, sel.count, stakers)
    /\ sel' = [sel EXCEPT !.pc = "returned"]
    /\ UNCHANGED <<stakers, total_stake, minimum_stake, unbonding_period, pos_pc, pos_call,
                   pos_pre, pos_query, overflow_checks>>

\* a registry is filled by add_staker, then select_validators is called once
NextSelect ==
    \/ /\ sel.pc = "idle"
       /\ \E a \in PosAddr, stake_amount \in 0..MaxStake :
            AddStakerCall(a, stake_amount, 0) /\ UNCHANGED <<ledgerRest, posRest>>
    \/ \E count \in 0..(MaxStakers + 1) :
            BeginSelectValidators(count) /\ UNCHANGED ledgerRest
    \/ \E i \in 1..MaxStakers : SelectStaker(i) /\ UNCHANGED ledgerRest
    \/ SelectReturn /\ UNCHANGED ledgerRest

\* every draw has a positive chance, so an entry the walk can stop at is drawn
\* again and again; the return is the next step once the loop condition fails
SelectFair ==
    /\ WF_vars(SelectReturn /\ UNCHANGED ledgerRest)
    /\ \A i \in 1..MaxStakers : SF_vars(SelectStaker(i) /\ UNCHANGED ledgerRest)

SpecSelect == InitPos /\ [][NextSelect]_vars /\ SelectFair

\* ------------------------------------------------------- claims on one transaction
\* the transaction of the last apply_transaction call
LastTx == txs[1]
AfterTx == op = "apply_transaction"
SenderKnown == LastTx.from \in DOMAIN pre
NonceOk == SenderKnown /\ pre[LastTx.from].nonce = LastTx.nonce

\* C1: a transaction whose nonce differs from the sender's current nonce (lower
\* or higher) is refused with "Invalid nonce" and the ledger after the call is
\* the ledger before it (same accounts, same balances and nonces).
C1_NonceMismatchRejected ==
    (AfterTx /\ SenderKnown /\ pre[LastTx.from].nonce # LastTx.nonce)
        => (result = ErrNonce /\ accounts = pre)

\* a replayed (lower) nonce from a sender who could pay, to an address without account
C1_Witness ==
    /\ AfterTx /\ SenderKnown
    /\ LastTx.nonce < pre[LastTx.from].nonce
    /\ pre[LastTx.from].balance >= LastTx.amount + LastTx.fee
    /\ LastTx.amount > 0
    /\ LastTx.to \notin DOMAIN pre
    /\ result = ErrNonce

\* C2 as stated: spending exactly the balance succeeds and leaves the sender's
\* balance at 0; spending one unit more fails with "Insufficient balance" and
\* leaves the whole ledger unchanged.
C2_Original ==
    (AfterTx /\ NonceOk) =>
        /\ (LastTx.amount + LastTx.fee = pre[LastTx.from].balance
                => (result = OK /\ accounts[LastTx.from].balance = 0))
        /\ (LastTx.amount + LastTx.fee = pre[LastTx.from].balance + 1
                => (result = ErrBalance /\ accounts = pre))

\* C2 amended: spending exactly the balance succeeds and leaves the sender's
\* balance at 0 when the recipient is another address, and at the amount when the
\* sender pays itself; spending one unit more fails with "Insufficient balance"
\* and leaves the whole ledger unchanged.
C2_ExactBalance ==
    (AfterTx /\ NonceOk) =>
        /\ (LastTx.amount + LastTx.fee = pre[LastTx.from].balance
                => /\ result = OK
                   /\ accounts[LastTx.from].balance =
                        IF LastTx.to = LastTx.from THEN LastTx.amount ELSE 0)
        /\ (LastTx.amount + LastTx.fee = pre[LastTx.from].balance + 1
                => (result = ErrBalance /\ accounts = pre))

\* a sender pays itself its whole balance
C2_Witness ==
    /\ AfterTx /\ NonceOk
    /\ LastTx.to = LastTx.from
    /\ LastTx.amount > 0
    /\ LastTx.amount + LastTx.fee = pre[LastTx.from].balance
    /\ result = OK
    /\ accounts[LastTx.from].balance = LastTx.amount

\* the recipient's account as the call found it (or_insert's default if absent)
RecipientBefore == IF LastTx.to \in DOMAIN pre THEN pre[LastTx.to] ELSE NewAccount(LastTx.to)

\* C3: a successful apply_transaction debits the sender by amount+fee, adds 1 to
\* the sender's nonce, credits the recipient by amount (creating it with balance
\* 0, nonce 0, stake 0, not a validator, if absent) and changes no other account
\* and no other field; a sender paying itself loses the fee and gains one nonce.
C3_SuccessEffect ==
    (AfterTx /\ result = OK) =>
        LET from == LastTx.from
            to == LastTx.to IN
        /\ SenderKnown
        /\ DOMAIN accounts = (DOMAIN pre) \cup {to}
        /\ \A a \in (DOMAIN pre) \ {from, to} : accounts[a] = pre[a]
        /\ IF from = to
           THEN accounts[from] = [pre[from] EXCEPT !.balance = @ - LastTx.fee,
                                                   !.nonce = @ + 1]
           ELSE /\ accounts[from] = [pre[from] EXCEPT
                                        !.balance = @ - (LastTx.amount + LastTx.fee),
                                        !.nonce = @ + 1]
                /\ accounts[to] = [RecipientBefore EXCEPT !.balance = @ + LastTx.amount]

\* a paid transfer with a fee to an address without account, a third account present
C3_Witness ==
    /\ AfterTx /\ result = OK
    /\ LastTx.amount > 0 /\ LastTx.fee > 0
    /\ LastTx.to \notin DOMAIN pre
    /\ (DOMAIN pre) \ {LastTx.from, LastTx.to} # {}
    /\ accounts[LastTx.to].balance = LastTx.amount

\* C4: a transaction from an address without account is refused with "Sender
\* account not found" and the ledger is unchanged: the recipient is neither
\* created nor credited.
C4_UnknownSenderRejected ==
    (AfterTx /\ ~SenderKnown) => (result = ErrNotFound /\ accounts = pre)

\* an unknown sender pays an address without account
C4_Witness ==
    /\ AfterTx /\ ~SenderKnown
    /\ LastTx.to \notin DOMAIN pre
    /\ LastTx.to # LastTx.from
    /\ LastTx.amount > 0
    /\ result = ErrNotFound

\* ------------------------------------------------------- claims on one block
AfterBlock == op = "apply_block"

\* the ledger after the first k transactions of seq went through apply_transaction
RECURSIVE LedgerAfter(_, _, _)
LedgerAfter(accts, seq, k) ==
    IF k = 0 THEN accts
    ELSE ApplyTransaction(LedgerAfter(accts, seq, k - 1), seq[k], overflow_checks).accounts

\* what apply_transaction returns for the k-th transaction, the ones before it applied
ResultAt(accts, seq, k) ==
    ApplyTransaction(LedgerAfter(accts, seq, k - 1), seq[k], overflow_checks).result

Failures(accts, seq) == {k \in 1..Len(seq) : ResultAt(accts, seq, k) # OK}

FirstFailure(accts, seq) ==
    CHOOSE k \in Failures(accts, seq) : \A j \in Failures(accts, seq) : k <= j

\* C5: after apply_block returns, either every transaction of the block has been
\* committed or the ledger is as it was before the call.
C5_BlockAtomic ==
    AfterBlock =>
        \/ accounts = pre
        \/ Failures(pre, txs) = {} /\ accounts = LedgerAfter(pre, txs, Len(txs))

\* C6: apply_block applies the transactions in list order; at the first one that
\* fails it returns that error, the ledger holds exactly the effects of the
\* transactions before it and none of a later one; if none fails it returns Ok
\* and the ledger is the result of applying all of them in order.
C6_PrefixCommitted ==
    AfterBlock =>
        IF Failures(pre, txs) = {}
        THEN result = OK /\ accounts = LedgerAfter(pre, txs, Len(txs))
        ELSE LET k == FirstFailure(pre, txs) IN
             /\ result = ResultAt(pre, txs, k)
             /\ accounts = LedgerAfter(pre, txs, k - 1)

\* the first transaction is applied and stays applied, the second fails on its nonce
C6_Witness ==
    /\ AfterBlock
    /\ Len(txs) >= 2
    /\ Failures(pre, txs) # {}
    /\ FirstFailure(pre, txs) = 2
    /\ result = ErrNonce
    /\ accounts # pre
    /\ accounts = LedgerAfter(pre, txs, 1)

\* ------------------------------------------------------- claims on sequences of calls
\* the number of accepted transactions sent from a
RECURSIVE SumAccepted(_, _)
SumAccepted(a, ns) ==
    IF ns = {} THEN 0
    ELSE LET n == CHOOSE x \in ns : TRUE
         IN accepted[<<a, n>>] + SumAccepted(a, ns \ {n})

SentAccepted(a) == SumAccepted(a, Nonces)

InitialNonce(a) == IF a \in DOMAIN genesis THEN genesis[a].nonce ELSE 0

\* C7: over any sequence of apply_transaction and apply_block calls, each
\* account's nonce is its initial nonce plus the number of accepted transactions
\* sent from it: it moves by 1 on each of them and not at all on a rejected
\* transaction or on one that only pays the account.
C7_NonceCountsAccepted ==
    /\ \A a \in DOMAIN accounts : accounts[a].nonce = InitialNonce(a) + SentAccepted(a)
    /\ \A a \in Addr \ DOMAIN accounts : SentAccepted(a) = 0

\* a1 has sent two accepted transactions, a2 has been paid and has sent none,
\* and the last call was rejected
C7_Witness ==
    /\ accounts["a1"].nonce = 2 /\ SentAccepted("a1") = 2
    /\ "a2" \in DOMAIN genesis
    /\ accounts["a2"].balance > genesis["a2"].balance
    /\ accounts["a2"].nonce = genesis["a2"].nonce
    /\ result = ErrNonce

\* C8: over any sequence of apply_transaction and apply_block calls, for each
\* sender at most one transaction with a given nonce is ever accepted (so a
\* transaction submitted again after it was accepted is rejected).
C8_NoReplay == \A k \in AcceptedKeys : accepted[k] <= 1

\* a (sender, nonce) accepted earlier was tried again by a sender who could
\* still pay, and the call was rejected for its nonce
C8_Witness ==
    /\ resubmitted
    /\ op = "apply_transaction"
    /\ result = ErrNonce
    /\ accepted[<<"a1", 0>>] = 1
    /\ accounts["a1"].balance >= 1
    /\ accounts["a1"].nonce = 1

\* ------------------------------------------------------- claims on the stake registry
AfterAdd == pos_call.name = "add_staker"
AfterRemove == pos_call.name = "remove_staker"

\* C9: add_staker with an amount below minimum_stake returns false and leaves
\* total_stake and the staker list unchanged; with an amount at or above it, it
\* returns true, total_stake grows by that amount, and the list grows by one
\* entry, appended, that records the given address, amount and timestamp.
C9_AddStaker ==
    AfterAdd =>
        IF pos_call.amount < minimum_stake
        THEN /\ pos_call.ret = "false"
             /\ stakers = pos_pre.stakers
             /\ total_stake = pos_pre.total_stake
        ELSE /\ pos_call.ret = "true"
             /\ total_stake = pos_pre.total_stake + pos_call.amount
             /\ Len(stakers) = Len(pos_pre.stakers) + 1
             /\ SubSeq(stakers, 1, Len(pos_pre.stakers)) = pos_pre.stakers
             /\ stakers[Len(stakers)].address = pos_call.address
             /\ stakers[Len(stakers)].stake_amount = pos_call.amount
             /\ stakers[Len(stakers)].bonded_since = pos_call.time

\* a stake of exactly the (non-zero) minimum is added to a registry that holds one
C9_Witness ==
    /\ AfterAdd
    /\ minimum_stake > 0
    /\ pos_call.amount = minimum_stake
    /\ pos_call.ret = "true"
    /\ Len(pos_pre.stakers) = 1
    /\ Len(stakers) = 2
    /\ total_stake = pos_pre.total_stake + minimum_stake

\* C10: remove_staker for an active staker before bonded_since + unbonding_period
\* returns false and leaves total_stake and the list unchanged; at or after that
\* time it returns true, removes that staker and lowers total_stake by its
\* stake; for an address that is no staker it returns false with no change.
C10_RemoveStaker ==
    AfterRemove =>
        LET index == Position(pos_pre.stakers, pos_call.address) IN
        IF index = 0
        THEN /\ pos_call.ret = "false"
             /\ stakers = pos_pre.stakers
             /\ total_stake = pos_pre.total_stake
        ELSE IF pos_call.time < pos_pre.stakers[index].bonded_since + unbonding_period
        THEN /\ pos_call.ret = "false"
             /\ stakers = pos_pre.stakers
             /\ total_stake = pos_pre.total_stake
        ELSE /\ pos_call.ret = "true"
             /\ stakers = RemoveAt(pos_pre.stakers, index)
             /\ total_stake = pos_pre.total_stake - pos_pre.stakers[index].stake_amount

\* C11: for every current_time, those before the staker's bonded_since included,
\* remove_staker returns false and changes nothing whenever fewer than
\* unbonding_period seconds have elapsed since bonded_since.
C11_NoEarlyRemoval ==
    AfterRemove =>
        LET index == Position(pos_pre.stakers, pos_call.address) IN
        (index # 0 /\ pos_call.time - pos_pre.stakers[index].bonded_since < unbonding_period)
            => /\ pos_call.ret = "false"
               /\ stakers = pos_pre.stakers
               /\ total_stake = pos_pre.total_stake

\* ------------------------------------------------------- vote_on_block
Registry == [stakers |-> stakers, total_stake |-> total_stake]

\* a call of vote_on_block
VoteOnBlockCall(block_hash, validator, key_pair, vote) ==
    /\ pos_pc = "idle"
    /\ pos_query' = [name |-> "vote_on_block", block |-> block_hash, validator |-> validator,
                     key_pair |-> key_pair, vote |-> vote, pre |-> Registry,
                     ret |-> VoteOnBlock(stakers, block_hash, validator, key_pair, vote)]
    /\ UNCHANGED <<stakers, total_stake, minimum_stake, unbonding_period, pos_pc, pos_call,
                   pos_pre, sel, overflow_checks>>

\* add_staker, remove_staker and vote_on_block in any order
NextVote ==
    \/ \E a \in PosAddr, stake_amount \in 0..MaxStake :
        AddStakerCall(a, stake_amount, 0) /\ pos_query' = NoCall /\ UNCHANGED <<ledgerRest, sel>>
    \/ \E a \in PosAddr, current_time \in 0..MaxTime :
        RemoveStakerCall(a, current_time) /\ pos_query' = NoCall /\ UNCHANGED <<ledgerRest, sel>>
    \/ \E block_hash \in BlockHashes, validator \in PosAddr, key_pair \in KeyPairs,
          vote \in VoteType :
        VoteOnBlockCall(block_hash, validator, key_pair, vote) /\ UNCHANGED ledgerRest

\* vote_on_block reads neither minimum_stake nor unbonding_period
InitVote == InitPos /\ minimum_stake = 0 /\ unbonding_period = 1

SpecVote == InitVote /\ [][NextVote]_vars

\* ------------------------------------------------------- calculate_finality_score
Votes == {ValidatorVote(validator, <<>>, vote) : validator \in PosAddr, vote \in VoteType}

\* Option<f32>: absent, or a score in tenths, inside [0,1] or not
AiScores == {None} \cup {Some(x) : x \in {-10, 0, 8, 10, 20}}

\* a call of calculate_finality_score
CalculateFinalityScoreCall(votes, ai_score) ==
    /\ pos_pc = "idle"
    /\ pos_query' = [name |-> "calculate_finality_score", votes |-> votes,
                     ai_score |-> ai_score, pre |-> Registry,
                     ret |-> CalculateFinalityScore(stakers, votes, ai_score)]
    /\ UNCHANGED <<stakers, total_stake, minimum_stake, unbonding_period, pos_pc, pos_call,
                   pos_pre, sel, overflow_checks>>

\* a registry is filled by add_staker, then a score is computed on it
InitScore == InitPos /\ minimum_stake = 0 /\ unbonding_period = 1

NextScore ==
    /\ pos_query = NoCall
    /\ \/ \E a \in PosAddr, stake_amount \in 0..MaxStake :
            AddStakerCall(a, stake_amount, 0) /\ UNCHANGED <<ledgerRest, posRest>>
       \/ \E votes \in SeqsUpTo(Votes, MaxVotes), ai_score \in AiScores :
            CalculateFinalityScoreCall(votes, ai_score) /\ UNCHANGED ledgerRest

SpecScore == InitScore /\ [][NextScore]_vars

\* ------------------------------------------------------- blocks and mining actions
\* a transaction to put in blocks
ChainTx == [from |-> "a1", to |-> "a2", amount |-> 1, fee |-> 0, nonce |-> 0]

\* transaction lists up to one more than validate() accepts
TxLists == {[i \in 1..n |-> ChainTx] : n \in 0..(TransactionLimit + 1)}

\* a block out of Block::new, a miner, and a digest function
ChainStart(blocks, pows, shas) ==
    /\ sha \in shas
    /\ pow \in pows
    /\ chain_block \in blocks
    /\ fresh = chain_block
    /\ tampered = "none"
    /\ mine = MineIdle
    /\ difficulty_call = NoCall

\* Nothing in blocks and mining does arithmetic that can overflow.
InitChain(blocks, pows, shas) ==
    /\ ChainStart(blocks, pows, shas)
    /\ overflow_checks = FALSE
    /\ LedgerUnused
    /\ PosUnused

\* pow.rs lines 16-17: the block is moved into the call
BeginMineBlock ==
    /\ mine.pc = "idle"
    /\ mine' = [MineIdle EXCEPT !.pc = "loop", !.block = chain_block]
    /\ UNCHANGED <<sha, pow, chain_block, fresh, tampered, difficulty_call>>

\* pow.rs lines 19-27: one turn of the for loop
MineStep ==
    /\ mine.pc = "loop"
    /\ mine.nonce < pow.max_nonce
    /\ LET b == [mine.block EXCEPT !.header.nonce = mine.nonce]
           hash == CalculateHash(b)
       IN IF IsValidHash(hash, GetTarget(pow.difficulty))
          THEN mine' = [mine EXCEPT !.pc = "returned", !.block = WithHash(b, hash),
                                    !.ret = Some(WithHash(b, hash)),
                                    !.tried = Append(@, mine.nonce)]
          ELSE mine' = [mine EXCEPT !.block = b, !.nonce = NextNonce(@),
                                    !.tried = Append(@, mine.nonce)]
    /\ UNCHANGED <<sha, pow, chain_block, fresh, tampered, difficulty_call>>

\* pow.rs line 29: the range is exhausted
MineExhausted ==
    /\ mine.pc = "loop"
    /\ ~(mine.nonce < pow.max_nonce)
    /\ mine' = [mine EXCEPT !.pc = "returned", !.ret = None]
    /\ UNCHANGED <<sha, pow, chain_block, fresh, tampered, difficulty_call>>

posAll == <<posVars, accounts, pc, op, result, pre, txs, calls, genesis, accepted,
            resubmitted, fees_paid, overflow_checks>>

MineBlocks ==
    {BlockNew("p0", transactions, 1, 1, now) : transactions \in {<<>>, <<ChainTx>>,
                                    [i \in 1..(TransactionLimit + 1) |-> ChainTx]},
                                               now \in {0, 1}}

Pows == [difficulty : 0..MaxDifficulty, max_nonce : 0..(MaxNonce + 1)]

InitMine == InitChain(MineBlocks, Pows, [0..MaxNonce -> Leads])

NextMine ==
    \/ BeginMineBlock /\ UNCHANGED posAll
    \/ MineStep /\ UNCHANGED posAll
    \/ MineExhausted /\ UNCHANGED posAll

\* the search is a sequential loop without suspension points: it keeps going
SpecMine == InitMine /\ [][NextMine]_vars /\ WF_vars(NextMine)

\* the header fields and values to overwrite them with
HeaderFields == {"version", "previous_hash", "merkle_root", "timestamp", "difficulty",
                 "nonce", "validator_votes", "height"}

FieldValues(field) ==
    IF field = "version" THEN {1, 2}
    ELSE IF field = "previous_hash" THEN {"p0", "p1", "p2"}
    ELSE IF field = "merkle_root" THEN {CalculateMerkleRoot(l) : l \in TxLists}
    ELSE IF field = "timestamp" THEN {0, 1, 2}
    ELSE IF field = "difficulty" THEN 0..(MaxDifficulty + 1)
    ELSE IF field = "nonce" THEN 0..MaxNonce
    ELSE IF field = "validator_votes"
         THEN {<<>>, <<ValidatorVote("v1", Sign("k1", VoteData("h1", "Approve")), "Approve")>>}
    ELSE {0, 1, 2}

\* a header field of the block is overwritten, the hash is left as it was
SetHeaderField(field, value) ==
    /\ tampered = "none"
    /\ value # chain_block.header[field]
    /\ chain_block' = [chain_block EXCEPT !.header[field] = value]
    /\ tampered' = field
    /\ UNCHANGED <<sha, pow, fresh, mine, difficulty_call>>

NewBlocks ==
    {BlockNew(previous_hash, transactions, difficulty, height, now) :
        previous_hash \in {"p0", "p1"}, transactions \in TxLists,
        difficulty \in 0..MaxDifficulty, height \in {0, 1}, now \in {0, 1}}

InitValidate == InitChain(NewBlocks, {PowNew(0)}, {[n \in 0..MaxNonce |-> [i \in 1..HashLen |-> "0"]]})

NextValidate ==
    \E field \in HeaderFields : \E value \in FieldValues(field) :
        SetHeaderField(field, value) /\ UNCHANGED posAll

SpecValidate == InitValidate /\ [][NextValidate]_vars

\* ------------------------------------------------------- blocks and their transactions
\* three transactions that differ from one another
MerkleTransactions ==
    {ChainTx, [ChainTx EXCEPT !.amount = 2], [ChainTx EXCEPT !.from = "a3", !.nonce = 1]}

MerkleLists == SeqsUpTo(MerkleTransactions, MaxTxLen)

\* a call of Block::new
BlockNewCall(previous_hash, transactions, difficulty, height, now) ==
    /\ chain_block = NoBlock
    /\ chain_block' = BlockNew(previous_hash, transactions, difficulty, height, now)
    /\ fresh' = chain_block'
    /\ UNCHANGED <<sha, pow, tampered, mine, difficulty_call>>

\* block.transactions is a public field: the caller gives it another list and
\* leaves the header and the hash as they were
SetTransactions(transactions) ==
    /\ chain_block # NoBlock
    /\ tampered = "none"
    /\ transactions # chain_block.transactions
    /\ chain_block' = [chain_block EXCEPT !.transactions = transactions]
    /\ tampered' = "transactions"
    /\ UNCHANGED <<sha, pow, fresh, mine, difficulty_call>>

InitMerkle ==
    InitChain({NoBlock}, {PowNew(0)}, {[n \in 0..MaxNonce |-> [i \in 1..HashLen |-> "0"]]})

NextMerkle ==
    \/ \E transactions \in MerkleLists, now \in {0, 1} :
        BlockNewCall("p0", transactions, 0, 0, now) /\ UNCHANGED posAll
    \/ \E transactions \in MerkleLists :
        SetTransactions(transactions) /\ UNCHANGED posAll

SpecMerkle == InitMerkle /\ [][NextMerkle]_vars

\* ------------------------------------------------------- blocks applied to the ledger
\* a ledger and a block out of Block::new, of up to one transaction more than
\* validate() accepts, each moving one unit from a1 to a2
InitApply ==
    /\ LedgerStart(BlockLedgers)
    /\ PosUnused
    /\ ChainStart({BlockNew("p0", transactions, 0, 1, 0) :
                        transactions \in SeqsUpTo({tx \in SeqTransaction : tx.from = "a1"},
                                                  TransactionLimit + 1)},
                  {PowNew(0)}, {[n \in 0..MaxNonce |-> [i \in 1..HashLen |-> "0"]]})

\* the caller may overwrite a header field, and hands the block to apply_block
NextApply ==
    /\ calls = 0
    /\ \/ \E field \in HeaderFields : \E value \in FieldValues(field) :
            SetHeaderField(field, value) /\ UNCHANGED posAll
       \/ /\ ApplyBlockCall(chain_block.transactions)
          /\ Record(chain_block.transactions)
          /\ UNCHANGED <<posVars, chainVars>>

SpecApply == InitApply /\ [][NextApply]_vars

\* ------------------------------------------------------- difficulty retargeting
\* one call of calculate_difficulty, at heights on and off the multiples of 2016,
\* with times that fit i64 (seconds since 1970, seconds per block) and a
\* difficulty from 0 up
\* a call of calculate_difficulty
CalculateDifficultyCall(current_height, last_block_time, target_block_time, current_difficulty) ==
    /\ difficulty_call = NoCall
    /\ difficulty_call' =
            [name |-> "calculate_difficulty", current_height |-> current_height,
             last_block_time |-> last_block_time, target_block_time |-> target_block_time,
             current_difficulty |-> current_difficulty,
             ret |-> CalculateDifficulty(current_height, last_block_time, target_block_time,
                                         current_difficulty, overflow_checks)]
    /\ UNCHANGED <<sha, pow, chain_block, fresh, tampered, mine>>

InitDifficulty ==
    /\ ChainStart({NoBlock}, {PowNew(0)}, {<<>>})
    /\ overflow_checks \in BOOLEAN
    /\ LedgerUnused
    /\ PosUnused

NextDifficulty ==
    \E current_height \in {0, 1, RetargetInterval - 1, RetargetInterval, RetargetInterval + 1,
                           2 * RetargetInterval},
       last_block_time \in 0..I64Max, target_block_time \in 0..I64Max,
       current_difficulty \in 0..(MaxDifficulty + 1) :
        /\ CalculateDifficultyCall(current_height, last_block_time, target_block_time,
                                   current_difficulty)
        /\ UNCHANGED posAll

SpecDifficulty == InitDifficulty /\ [][NextDifficulty]_vars

\* ------------------------------------------------------- claims on select_validators
Addresses(list) == {list[i].address : i \in 1..Len(list)}
NoDuplicates(seq) == \A i, j \in 1..Len(seq) : seq[i] = seq[j] => i = j
Min(x, y) == IF x <= y THEN x ELSE y

\* C12: select_validators(k) on a registry of exactly k >= 1 entries terminates
\* and returns the addresses of all k entries, each exactly once.
C12_SelectsAll ==
    (sel.pc = "loop" /\ sel.count >= 1 /\ sel.count = Len(stakers))
        ~> /\ sel.pc = "returned"
           /\ Len(sel.validators) = Len(stakers)
           /\ \A i \in 1..Len(stakers) :
                Cardinality({j \in 1..Len(sel.validators) :
                                sel.validators[j] = stakers[i].address}) = 1

\* C13: at every point of select_validators(count) and in its result, validators
\* holds no address twice, only addresses of stakers, and at most
\* min(count, number of entries) of them; when the call returns it holds exactly
\* that many; the registry is as the call found it.
C13_SelectionSafe ==
    (sel.pc # "idle") =>
        /\ NoDuplicates(sel.validators)
        /\ \A i \in 1..Len(sel.validators) : sel.validators[i] \in Addresses(stakers)
        /\ Len(sel.validators) <= Min(sel.count, Len(stakers))
        /\ (sel.pc = "returned" => Len(sel.validators) = Min(sel.count, Len(stakers)))
        /\ stakers = sel.pre

\* more validators were asked for than the two entries the registry holds, a draw
\* hit an entry already selected and was skipped, and both addresses were returned
C13_Witness ==
    /\ sel.pc = "returned"
    /\ sel.count > Len(stakers)
    /\ Len(stakers) = 2
    /\ sel.skipped
    /\ Len(sel.validators) = 2
    /\ sel.validators[1] # sel.validators[2]

\* ------------------------------------------------------- claims on votes and finality
AfterVote == pos_query.name = "vote_on_block"

\* C14: vote_on_block returns a vote only for an address that has an entry in the
\* registry at the time of the call (None for one never staked or whose entry
\* was removed); the vote carries that address and the requested kind; the
\* registry is left as it was.
C14_VoteOnlyByStaker ==
    AfterVote =>
        /\ IF pos_query.validator \in Addresses(stakers)
           THEN /\ pos_query.ret.some
                /\ pos_query.ret.value.validator = pos_query.validator
                /\ pos_query.ret.value.vote = pos_query.vote
           ELSE pos_query.ret = None
        /\ Registry = pos_query.pre

\* an address whose entry remove_staker has just removed asks to vote and gets None,
\* while the other address is still staked
C14_Witness ==
    /\ AfterVote
    /\ pos_call.name = "remove_staker" /\ pos_call.ret = "true"
    /\ pos_query.validator = pos_call.address
    /\ pos_query.validator \in Addresses(pos_pre.stakers)
    /\ stakers # <<>>
    /\ pos_query.ret = None

AfterScore == pos_query.name = "calculate_finality_score"

RECURSIVE SumOver(_, _)
SumOver(f, S) ==
    IF S = {} THEN 0
    ELSE LET x == CHOOSE y \in S : TRUE IN f[x] + SumOver(f, S \ {x})

\* the voting power behind each vote of the last score call: that of the voter's
\* entry, 0 for a voter without entry
VotePower ==
    [i \in 1..Len(pos_query.votes) |->
        LET index == Position(stakers, pos_query.votes[i].validator)
        IN IF index = 0 THEN 0 ELSE stakers[index].voting_power]

ParticipatingPower == SumOver(VotePower, 1..Len(pos_query.votes))

ApprovalPower ==
    SumOver(VotePower, {i \in 1..Len(pos_query.votes) : pos_query.votes[i].vote = "Approve"})

ExternalScore == IF pos_query.ai_score.some THEN pos_query.ai_score.value ELSE 5

\* C15: the score is 0.6 * S + 0.4 * E, S the approving share of the voting power
\* of the votes cast by stakers (0 if that power is 0), E the external score or
\* 0.5 if absent; votes of non-stakers count nowhere, Reject and Abstain only
\* in the denominator.
C15_ScoreFormula ==
    AfterScore =>
        IF ParticipatingPower = 0
        THEN pos_query.ret.num * 100 = 4 * ExternalScore * pos_query.ret.den
        ELSE pos_query.ret.num * 100 * ParticipatingPower =
                (60 * ApprovalPower + 4 * ExternalScore * ParticipatingPower)
                    * pos_query.ret.den

\* one staker approves, a non-staker rejects, the external score is 0.8: 0.92
C15_Witness ==
    /\ AfterScore
    /\ Len(stakers) = 1
    /\ Len(pos_query.votes) = 2
    /\ pos_query.votes[1].validator \in Addresses(stakers)
    /\ pos_query.votes[1].vote = "Approve"
    /\ pos_query.votes[2].validator \notin Addresses(stakers)
    /\ pos_query.votes[2].vote = "Reject"
    /\ ParticipatingPower > 0
    /\ pos_query.ai_score = Some(8)
    /\ pos_query.ret.num * 100 = 92 * pos_query.ret.den

\* C16: the score is within [0,1] for every registry, every list of votes and
\* every external score, absent or present.
C16_ScoreInUnitInterval ==
    AfterScore => (0 <= pos_query.ret.num /\ pos_query.ret.num <= pos_query.ret.den)

\* ------------------------------------------------------- claims on mining
Mined == mine.pc = "returned"

\* C17: mining with difficulty 0 (ProofOfWork::new(0)) succeeds at nonce 0 on the
\* first attempt, for every block.
C17_DifficultyZeroFirstNonce ==
    (Mined /\ pow = PowNew(0)) =>
        /\ mine.ret.some
        /\ mine.ret.value.header.nonce = 0
        /\ mine.tried = <<0>>

\* the nonces below max_nonce whose header hash meets the target
ValidNonces ==
    {n \in 0..(pow.max_nonce - 1) :
        IsValidHash(CalculateHash([fresh EXCEPT !.header.nonce = n]),
                    GetTarget(pow.difficulty))}

C18_Search ==
    (mine.pc # "idle") =>
        /\ \A i \in 1..Len(mine.tried) : mine.tried[i] = i - 1
        /\ Mined =>
            IF ValidNonces = {}
            THEN mine.ret = None /\ Len(mine.tried) = pow.max_nonce
            ELSE /\ mine.ret.some
                 /\ mine.ret.value.header.nonce \in ValidNonces
                 /\ \A n \in ValidNonces : mine.ret.value.header.nonce <= n
                 /\ Len(mine.tried) = mine.ret.value.header.nonce + 1

\* C18: mine_block tries the nonces 0, 1, 2, ... in order and returns the block
\* with the smallest nonce whose recomputed header hash meets the target; if no
\* nonce below max_nonce does, the search ends and returns None.
C18_FirstValidNonce == [](C18_Search) /\ ((mine.pc = "loop") ~> Mined)

\* nonces 0 and 1 failed and nonce 2 met a target of one zero
C18_Witness ==
    /\ Mined
    /\ pow.difficulty = 1
    /\ mine.tried = <<0, 1, 2>>
    /\ mine.ret.some
    /\ mine.ret.value.header.nonce = 2

\* the returned block and the block given differ in header.nonce and hash only
OnlyNonceAndHashDiffer(b, input) ==
    [b EXCEPT !.header.nonce = input.header.nonce, !.hash = input.hash] = input

\* C19 as stated: every block mine_block returns has the hash recomputed from
\* its header, so that validate() is true, meets the target, and differs from
\* the block given in header.nonce and hash only.
C19_Original ==
    (Mined /\ mine.ret.some) =>
        /\ mine.ret.value.hash = CalculateHash(mine.ret.value)
        /\ Validate(mine.ret.value)
        /\ IsValidHash(mine.ret.value.hash, GetTarget(pow.difficulty))
        /\ OnlyNonceAndHashDiffer(mine.ret.value, fresh)

\* C19 amended: every block mine_block returns has the hash recomputed from its
\* header, meets the target, and differs from the block given in header.nonce
\* and hash only; validate() is true of it exactly if it holds no more
\* transactions than the limit.
C19_MinedBlockHash ==
    (Mined /\ mine.ret.some) =>
        /\ mine.ret.value.hash = CalculateHash(mine.ret.value)
        /\ Validate(mine.ret.value) <=> (Len(mine.ret.value.transactions) <= TransactionLimit)
        /\ IsValidHash(mine.ret.value.hash, GetTarget(pow.difficulty))
        /\ OnlyNonceAndHashDiffer(mine.ret.value, fresh)

\* a block with one transaction too many is mined at nonce 1: its hash is the
\* recomputed one and validate() is false
C19_Witness ==
    /\ Mined /\ mine.ret.some
    /\ mine.ret.value.header.nonce = 1
    /\ mine.ret.value.hash # fresh.hash
    /\ Len(mine.ret.value.transactions) > TransactionLimit
    /\ mine.ret.value.hash = CalculateHash(mine.ret.value)
    /\ ~Validate(mine.ret.value)

\* ------------------------------------------------------- claims on block validation
\* C20: a block as Block::new returns it, with no more transactions than the
\* limit, passes validate(); once any single header field is changed to another
\* value and the hash is not recomputed, validate() is false.
C20_ValidateDetectsHeaderChange ==
    /\ (tampered = "none" /\ Len(chain_block.transactions) <= TransactionLimit)
            => Validate(chain_block)
    /\ (tampered # "none") => ~Validate(chain_block)

\* the height of a valid block was changed
C20_Witness ==
    /\ tampered = "height"
    /\ Validate(fresh)
    /\ chain_block.header.height # fresh.header.height
    /\ chain_block.hash = fresh.hash
    /\ ~Validate(chain_block)

\* ------------------------------------------------------- claims on the merkle root
\* the reference reduction: the leaf hashes in list order, each level pairing
\* hash 2i-1 with hash 2i, or with itself where there is no hash 2i
ReferenceLeaves(transactions) ==
    [i \in 1..Len(transactions) |-> HashData(SerializeTransaction(transactions[i]))]

ReferenceLevel(hashes) ==
    [i \in 1..((Len(hashes) + 1) \div 2) |->
        HashData(<<hashes[2 * i - 1], hashes[Min(2 * i, Len(hashes))]>>)]

RECURSIVE ReferenceRoot(_)
ReferenceRoot(hashes) ==
    IF Len(hashes) = 1 THEN hashes[1] ELSE ReferenceRoot(ReferenceLevel(hashes))

Swapped(seq, i, j) ==
    [k \in 1..Len(seq) |-> IF k = i THEN seq[j] ELSE IF k = j THEN seq[i] ELSE seq[k]]

\* C21: the merkle root Block::new stores is the reference reduction of the
\* transaction list: the hash of the empty input for the empty list, the leaf
\* hash for a one-element list, and a different root once two distinct
\* transactions of the list are swapped.
C21_MerkleRoot ==
    fresh # NoBlock =>
        LET transactions == fresh.transactions
            root == fresh.header.merkle_root
        IN /\ transactions = <<>> => root = HashData(<<>>)
           /\ transactions # <<>> => root = ReferenceRoot(ReferenceLeaves(transactions))
           /\ Len(transactions) = 1 =>
                root = HashData(SerializeTransaction(transactions[1]))
           /\ \A i, j \in 1..Len(transactions) :
                transactions[i] # transactions[j] =>
                    CalculateMerkleRoot(Swapped(transactions, i, j)) # root

\* a block of three transactions, not all the same: an odd-sized level and a swap
C21_Witness ==
    /\ fresh # NoBlock
    /\ Len(fresh.transactions) = 3
    /\ fresh.transactions[1] # fresh.transactions[3]
    /\ fresh.header.merkle_root = ReferenceRoot(ReferenceLeaves(fresh.transactions))

\* ------------------------------------------------------- claims on calculate_difficulty
AfterDifficulty == difficulty_call.name = "calculate_difficulty"

Deviation ==
    IF difficulty_call.last_block_time >= difficulty_call.target_block_time
    THEN difficulty_call.last_block_time - difficulty_call.target_block_time
    ELSE difficulty_call.target_block_time - difficulty_call.last_block_time

C23_SignedByValidator ==
    (AfterVote /\ pos_query.ret.some) =>
        \E key_pair \in KeyPairs :
            /\ AddressFromPublicKey(PublicKey(key_pair)) = pos_query.ret.value.validator
            /\ VerifySignature(PublicKey(key_pair),
                               VoteData(pos_query.block, pos_query.vote),
                               pos_query.ret.value.signature)

\* ------------------------------------------------------- claims on the fixed-width sum
\* C24: apply_transaction accepts a transaction only if amount + fee, as a
\* number, is at most the sender's balance; when amount + fee is beyond u64 the
\* transaction is not accepted and no account changes.
C24_NoOverflowAcceptance ==
    AfterTx =>
        /\ result = OK => LastTx.amount + LastTx.fee <= pre[LastTx.from].balance
        /\ LastTx.amount + LastTx.fee > U64Max => (result # OK /\ accounts = pre)

\* ------------------------------------------------------- claims on the total supply
TotalSupply(accts) == GetTotalSupply(accts, overflow_checks)

\* C25: after any sequence of apply_transaction and apply_block calls
\* get_total_supply() is the supply before the first call minus the fees of the
\* transactions accepted since (each accepted transaction takes its fee off
\* the supply, also when sender and recipient are the same; a rejected one
\* takes nothing), so the supply never increases.
C25_SupplyAccounting ==
    /\ TotalSupply(accounts).result = OK
    /\ TotalSupply(accounts).value = TotalSupply(genesis).value - fees_paid
    /\ TotalSupply(accounts).value <= TotalSupply(genesis).value

\* two fee-paying transactions were accepted and the last call was rejected
C25_Witness ==
    /\ fees_paid >= 2
    /\ result \notin {OK, "none"}
    /\ TotalSupply(accounts).value = TotalSupply(genesis).value - 2

\* ------------------------------------------------------- claims on the registry as a whole
RECURSIVE SumStakes(_)
SumStakes(list) ==
    IF list = <<>> THEN 0 ELSE Head(list).stake_amount + SumStakes(Tail(list))

\* C26: after any sequence of add_staker and remove_staker calls, accepted or
\* rejected, total_stake is the sum of stake_amount over the entries of the
\* staker list, and 0 when the list is empty.
C26_TotalStakeIsSum ==
    /\ total_stake = SumStakes(stakers)
    /\ stakers = <<>> => total_stake = 0

\* an entry was removed and an entry with a stake is left
C26_Witness ==
    /\ pos_call.name = "remove_staker"
    /\ pos_call.ret = "true"
    /\ pos_pre.stakers[1].address # pos_call.address
    /\ stakers # <<>>
    /\ total_stake = SumStakes(stakers)
    /\ total_stake > 0

\* C27: no two entries of the staker list carry the same address, so after a
\* remove_staker(address) that returned true the list has no entry for that
\* address and vote_on_block returns no vote for it.
C27_KeyedByAddress ==
    /\ \A i, j \in 1..Len(stakers) : stakers[i].address = stakers[j].address => i = j
    /\ (pos_call.name = "remove_staker" /\ pos_call.ret = "true") =>
            /\ ~IsStaker(stakers, pos_call.address)
            /\ \A block_hash \in BlockHashes, key_pair \in KeyPairs, vote \in VoteType :
                    VoteOnBlock(stakers, block_hash, pos_call.address, key_pair, vote) = None

\* ------------------------------------------------------- claims on repeated votes
\* the votes at the positions of I, in order
RECURSIVE Pick(_, _, _)
Pick(votes, I, i) ==
    IF i > Len(votes) THEN <<>>
    ELSE (IF i \in I THEN <<votes[i]>> ELSE <<>>) \o Pick(votes, I, i + 1)

\* the ways to keep exactly one vote of every validator that votes
SingleVotes(votes) ==
    {Pick(votes, I, 1) : I \in {J \in SUBSET (1..Len(votes)) :
        \A i \in 1..Len(votes) :
            Cardinality({j \in J : votes[j].validator = votes[i].validator}) = 1}}

SameScore(a, b) == a.num * b.den = b.num * a.den

\* C28: the score of a vote list in which a validator votes several times is the
\* score of a list that keeps a single vote of each validator.
C28_RepeatedVotesCountOnce ==
    AfterScore =>
        \E single \in SingleVotes(pos_query.votes) :
            SameScore(pos_query.ret,
                      CalculateFinalityScore(stakers, single, pos_query.ai_score))

\* ------------------------------------------------------- claims on blocks and the ledger
\* C29: apply_block on a block for which validate() is false (its hash is not
\* the hash of its header, or it has more transactions than the limit) reports
\* a failure and changes no account.
C29_InvalidBlockNotApplied ==
    (op = "apply_block" /\ ~Validate(chain_block)) =>
        /\ result # OK
        /\ accounts = pre

\* C30: a block that validate() accepts has in its header the merkle root of the
\* transaction list it holds now: once the transactions of a constructed block
\* are replaced, reordered, added to or removed from while the header is left
\* alone, validate() is false.
C30_ValidateChecksMerkleRoot ==
    (chain_block # NoBlock /\ Validate(chain_block)) =>
        chain_block.header.merkle_root = CalculateMerkleRoot(chain_block.transactions)

====
